---- MODULE Spec2Model ----
(***************************************************************************)
(* Payments engine: a ledger of client accounts, a store of deposits that  *)
(* can be disputed, and the set of transaction ids under dispute.          *)
(*                                                                         *)
(* Amounts are rust_decimal values; the model counts them in units of     *)
(* 0.00001, one decimal place below the four that the report prints, so    *)
(* that +, - and the comparisons are the exact decimal ones.               *)
(* Option<Amount> is a sequence of length at most one: None is << >> and   *)
(* Some(v) is <<v>>.                                                       *)
(***************************************************************************)
EXTENDS Integers, Sequences, FiniteSets, TLC

VARIABLES
    clients,                \* PaymentsEngine.clients : ClientId -> ClientAccount
    transactions_database,  \* PaymentsEngine.transactions_database : TransactionId -> (ClientId, Amount)
    disputes,               \* PaymentsEngine.disputes : set of TransactionId
    charged_back,           \* history: the transaction ids a chargeback was accepted for
    accepted,               \* history: per client, the amounts of its accepted deposits, withdrawals, chargebacks
    tasks,                  \* concurrent callers: the await each task stands at and its transaction
    log,                    \* history: the transactions the tasks have called with, in call order
    driver                  \* main.rs: where main stands, the records its reader has yielded, what it printed

vars == <<clients, transactions_database, disputes, charged_back, accepted, tasks, log, driver>>

----------------------------------------------------------------------------
(* Bounds of the input domain *)

MaxClient == 2
MaxTx == 2
MaxAmount == 2
MaxTask == 2
MaxCalls == 3
MaxRecords == 2

ClientIds == 1..MaxClient
TransactionIds == 1..MaxTx

None == << >>
Some(v) == <<v>>

\* amounts handle_transaction can be called with: the engine's own tests pass
\* a negative amount and a missing one
Amounts == (-1)..MaxAmount
OptAmounts == {None} \cup {Some(v) : v \in Amounts}

----------------------------------------------------------------------------
(* Results *)

Ok == <<"Ok">>
ClientNotFound == <<"ClientNotFound">>
ClientAccountError(err) == <<"ClientAccountError", err>>
InvalidLeger(t) == <<"InvalidLeger", t>>
TransactionNotFound(t) == <<"TransactionNotFound", t>>
TransactionAlreadyDisputed(t) == <<"TransactionAlreadyDisputed", t>>
TransactionNotDisputed(t) == <<"TransactionNotDisputed", t>>
NotClientOwnedTransaction(t, c) == <<"NotClientOwnedTransaction", t, c>>
TransactionAlreadyExists == <<"TransactionAlreadyExists">>

Locked == ClientAccountError("Locked")
NegativeAmount == ClientAccountError("NegativeAmount")
InsufficientBalance == ClientAccountError("InsufficientBalance")

----------------------------------------------------------------------------
(* ClientAccount: each method returns its result and the account it leaves *)

ClientAccount_new == [available |-> 0, held |-> 0, total |-> 0, locked |-> FALSE]

\* deposit without the check of the lock
deposit_ignores_lock(self, amount) ==
    IF amount < 0 THEN [res |-> "NegativeAmount", self |-> self]
    ELSE [res |-> "Ok",
          self |-> [self EXCEPT !.available = @ + amount, !.total = @ + amount]]

\* deposit that credits available and forgets total
deposit_forgets_total(self, amount) ==
    IF self.locked THEN [res |-> "Locked", self |-> self]
    ELSE IF amount < 0 THEN [res |-> "NegativeAmount", self |-> self]
    ELSE [res |-> "Ok", self |-> [self EXCEPT !.available = @ + amount]]

\* deposit that checks the amount before the lock
deposit_amount_first(self, amount) ==
    IF amount < 0 THEN [res |-> "NegativeAmount", self |-> self]
    ELSE IF self.locked THEN [res |-> "Locked", self |-> self]
    ELSE [res |-> "Ok",
          self |-> [self EXCEPT !.available = @ + amount, !.total = @ + amount]]

deposit(self, amount) ==
    IF self.locked THEN [res |-> "Locked", self |-> self]
    ELSE IF amount < 0 THEN [res |-> "NegativeAmount", self |-> self]
    ELSE [res |-> "Ok",
          self |-> [self EXCEPT !.available = @ + amount, !.total = @ + amount]]

withdrawal(self, amount) ==
    IF self.locked THEN [res |-> "Locked", self |-> self]
    ELSE IF amount < 0 THEN [res |-> "NegativeAmount", self |-> self]
    ELSE IF self.available > amount
         THEN [res |-> "Ok",
               self |-> [self EXCEPT !.available = @ - amount, !.total = @ - amount]]
         ELSE [res |-> "InsufficientBalance", self |-> self]

\* dispute freezing the account
dispute_locks(self, amount) ==
    IF self.locked THEN [res |-> "Locked", self |-> self]
    ELSE [res |-> "Ok",
          self |-> [self EXCEPT !.available = @ - amount, !.held = @ + amount,
                                !.locked = TRUE]]

\* dispute with a floor: it holds no more than is available
dispute_floor(self, amount) ==
    IF self.locked THEN [res |-> "Locked", self |-> self]
    ELSE IF self.available < amount THEN [res |-> "InsufficientBalance", self |-> self]
    ELSE [res |-> "Ok",
          self |-> [self EXCEPT !.available = @ - amount, !.held = @ + amount]]

dispute(self, amount) ==
    IF self.locked THEN [res |-> "Locked", self |-> self]
    ELSE [res |-> "Ok",
          self |-> [self EXCEPT !.available = @ - amount, !.held = @ + amount]]

\* resolve that releases the funds and keeps them held
resolve_keeps_held(self, amount) ==
    IF self.locked THEN [res |-> "Locked", self |-> self]
    ELSE [res |-> "Ok", self |-> [self EXCEPT !.available = @ + amount]]

resolve(self, amount) ==
    IF self.locked THEN [res |-> "Locked", self |-> self]
    ELSE [res |-> "Ok",
          self |-> [self EXCEPT !.held = @ - amount, !.available = @ + amount]]

\* chargeback that forgets total
chargeback_keeps_total(self, amount) ==
    [res |-> "Ok", self |-> [self EXCEPT !.held = @ - amount, !.locked = TRUE]]

\* chargeback that takes the funds from available
chargeback_from_available(self, amount) ==
    [res |-> "Ok",
     self |-> [self EXCEPT !.available = @ - amount, !.total = @ - amount, !.locked = TRUE]]

\* chargeback that a locked account refuses
chargeback_checks_lock(self, amount) ==
    IF self.locked THEN [res |-> "Locked", self |-> self]
    ELSE [res |-> "Ok",
          self |-> [self EXCEPT !.held = @ - amount, !.total = @ - amount, !.locked = TRUE]]

\* chargeback that leaves the account open
chargeback_leaves_unlocked(self, amount) ==
    [res |-> "Ok", self |-> [self EXCEPT !.held = @ - amount, !.total = @ - amount]]

chargeback(self, amount) ==
    [res |-> "Ok",
     self |-> [self EXCEPT !.held = @ - amount, !.total = @ - amount, !.locked = TRUE]]

----------------------------------------------------------------------------
(* TransactionsDatabase *)

TransactionsDatabase_new == << >>

contains_key(db, transaction_id) == transaction_id \in DOMAIN db

get(db, transaction_id) ==
    IF transaction_id \in DOMAIN db THEN Some(db[transaction_id]) ELSE None

\* HashMap::insert: a present key is overwritten
insert(db, transaction_id, transaction_t) ==
    [k \in DOMAIN db \cup {transaction_id} |->
        IF k = transaction_id THEN transaction_t ELSE db[k]]

\* HashMap::entry(k).or_insert(v)
or_insert(map, k, v) ==
    IF k \in DOMAIN map THEN map ELSE [j \in DOMAIN map \cup {k} |-> IF j = k THEN v ELSE map[j]]

----------------------------------------------------------------------------
(* PaymentsEngine: each handler takes the engine (self) and the transaction *)
(* and returns its result together with the three maps it leaves            *)

PaymentsEngine_new ==
    [clients |-> << >>, transactions_database |-> TransactionsDatabase_new, disputes |-> {}]

Returns(res, self) ==
    [result |-> res, clients |-> self.clients,
     transactions_database |-> self.transactions_database, disputes |-> self.disputes]

\* handle_deposit without the check of the store
handle_deposit_overwrites(self, t) ==
    IF t.amount # None
    THEN LET transaction_value == t.amount[1]
             write_client_lock == or_insert(self.clients, t.t_client_id, ClientAccount_new)
             r == deposit(write_client_lock[t.t_client_id], transaction_value)
         IN IF r.res # "Ok"
            THEN Returns(ClientAccountError(r.res), [self EXCEPT !.clients = write_client_lock])
            ELSE Returns(Ok,
                    [self EXCEPT
                        !.clients = [write_client_lock EXCEPT ![t.t_client_id] = r.self],
                        !.transactions_database =
                            insert(@, t.transaction_id, <<t.t_client_id, transaction_value>>)])
    ELSE Returns(InvalidLeger(t.transaction_id), self)

handle_deposit(self, t) ==
    IF contains_key(self.transactions_database, t.transaction_id)
    THEN Returns(TransactionAlreadyExists, self)
    ELSE IF t.amount # None
    THEN LET transaction_value == t.amount[1]
             write_client_lock == or_insert(self.clients, t.t_client_id, ClientAccount_new)
             r == deposit(write_client_lock[t.t_client_id], transaction_value)
         IN IF r.res # "Ok"
            \* `?` returns after or_insert has run
            THEN Returns(ClientAccountError(r.res), [self EXCEPT !.clients = write_client_lock])
            ELSE Returns(Ok,
                    [self EXCEPT
                        !.clients = [write_client_lock EXCEPT ![t.t_client_id] = r.self],
                        !.transactions_database =
                            insert(@, t.transaction_id, <<t.t_client_id, transaction_value>>)])
    ELSE Returns(InvalidLeger(t.transaction_id), self)

\* handle_withdrawals that looks for the amount before it looks in the store
handle_withdrawals_amount_first(self, t) ==
    IF t.amount = None
    THEN Returns(InvalidLeger(t.transaction_id), self)
    ELSE IF contains_key(self.transactions_database, t.transaction_id)
    THEN Returns(TransactionAlreadyExists, self)
    ELSE LET transaction_value == t.amount[1]
             write_client_lock == or_insert(self.clients, t.t_client_id, ClientAccount_new)
             r == withdrawal(write_client_lock[t.t_client_id], transaction_value)
         IN IF r.res # "Ok"
            THEN Returns(ClientAccountError(r.res), [self EXCEPT !.clients = write_client_lock])
            ELSE Returns(Ok,
                    [self EXCEPT
                        !.clients = [write_client_lock EXCEPT ![t.t_client_id] = r.self]])

handle_withdrawals(self, t) ==
    IF contains_key(self.transactions_database, t.transaction_id)
    THEN Returns(TransactionAlreadyExists, self)
    ELSE IF t.amount # None
    THEN LET transaction_value == t.amount[1]
             write_client_lock == or_insert(self.clients, t.t_client_id, ClientAccount_new)
             r == withdrawal(write_client_lock[t.t_client_id], transaction_value)
         IN IF r.res # "Ok"
            THEN Returns(ClientAccountError(r.res), [self EXCEPT !.clients = write_client_lock])
            ELSE Returns(Ok,
                    [self EXCEPT
                        !.clients = [write_client_lock EXCEPT ![t.t_client_id] = r.self]])
    ELSE Returns(InvalidLeger(t.transaction_id), self)

\* the closure handed to handle_transaction_without_amount: |c, a| c.dispute(a),
\* |c, a| c.resolve(a) or |c, a| c.chargeback(a), named by its method
FnOnce(action, c, a) ==
    CASE action = "dispute" -> dispute(c, a)
      [] action = "resolve" -> resolve(c, a)
      [] action = "chargeback" -> chargeback(c, a)

\* handle_transaction_without_amount without the check of the owner
handle_transaction_without_amount_any_owner(self, t_client_id, transaction_id, action) ==
    IF t_client_id \in DOMAIN self.clients
    THEN LET found == get(self.transactions_database, transaction_id)
         IN IF found # None
            THEN LET amount == found[1][2]
                     r == FnOnce(action, self.clients[t_client_id], amount)
                 IN IF r.res = "Ok"
                    THEN Returns(Ok, [self EXCEPT !.clients[t_client_id] = r.self])
                    ELSE Returns(ClientAccountError(r.res), self)
            ELSE Returns(TransactionNotFound(transaction_id), self)
    ELSE Returns(ClientNotFound, self)

\* handle_transaction_without_amount that gets or creates the account, as the
\* handlers of deposits and withdrawals do
handle_transaction_without_amount_creates_account(self, t_client_id, transaction_id, action) ==
    LET write_client_lock == or_insert(self.clients, t_client_id, ClientAccount_new)
        created == [self EXCEPT !.clients = write_client_lock]
        found == get(self.transactions_database, transaction_id)
    IN IF found # None
       THEN LET client_id_expected == found[1][1]
                amount == found[1][2]
            IN IF t_client_id = client_id_expected
               THEN LET r == FnOnce(action, write_client_lock[t_client_id], amount)
                    IN IF r.res = "Ok"
                       THEN Returns(Ok, [created EXCEPT !.clients[t_client_id] = r.self])
                       ELSE Returns(ClientAccountError(r.res), created)
               ELSE Returns(NotClientOwnedTransaction(transaction_id, t_client_id), created)
       ELSE Returns(TransactionNotFound(transaction_id), created)

\* handle_transaction_without_amount that looks the transaction up before the
\* account
handle_transaction_without_amount_store_first(self, t_client_id, transaction_id, action) ==
    LET found == get(self.transactions_database, transaction_id)
    IN IF found # None
       THEN LET client_id_expected == found[1][1]
                amount == found[1][2]
            IN IF t_client_id = client_id_expected
               THEN IF t_client_id \in DOMAIN self.clients
                    THEN LET r == FnOnce(action, self.clients[t_client_id], amount)
                         IN IF r.res = "Ok"
                            THEN Returns(Ok, [self EXCEPT !.clients[t_client_id] = r.self])
                            ELSE Returns(ClientAccountError(r.res), self)
                    ELSE Returns(ClientNotFound, self)
               ELSE Returns(NotClientOwnedTransaction(transaction_id, t_client_id), self)
       ELSE Returns(TransactionNotFound(transaction_id), self)

handle_transaction_without_amount(self, t_client_id, transaction_id, action) ==
    IF t_client_id \in DOMAIN self.clients
    THEN LET found == get(self.transactions_database, transaction_id)
         IN IF found # None
            THEN LET client_id_expected == found[1][1]
                     amount == found[1][2]
                 IN IF t_client_id = client_id_expected
                    THEN LET r == FnOnce(action, self.clients[t_client_id], amount)
                         IN IF r.res = "Ok"
                            THEN Returns(Ok, [self EXCEPT !.clients[t_client_id] = r.self])
                            ELSE Returns(ClientAccountError(r.res), self)
                    ELSE Returns(NotClientOwnedTransaction(transaction_id, t_client_id), self)
            ELSE Returns(TransactionNotFound(transaction_id), self)
    ELSE Returns(ClientNotFound, self)

\* handle_dispute without the check of the dispute set
handle_dispute_unchecked(self, t) ==
    LET r == handle_transaction_without_amount(self, t.t_client_id, t.transaction_id, "dispute")
    IN IF r.result # Ok
       THEN r
       ELSE [r EXCEPT !.disputes = @ \cup {t.transaction_id}]

\* handle_dispute that puts the id in the dispute set before the account is asked
handle_dispute_inserts_first(self, t) ==
    IF t.transaction_id \in self.disputes
    THEN Returns(TransactionAlreadyDisputed(t.transaction_id), self)
    ELSE LET r == handle_transaction_without_amount(self, t.t_client_id, t.transaction_id, "dispute")
         IN [r EXCEPT !.disputes = @ \cup {t.transaction_id}]

handle_dispute(self, t) ==
    IF t.transaction_id \in self.disputes
    THEN Returns(TransactionAlreadyDisputed(t.transaction_id), self)
    ELSE LET r == handle_transaction_without_amount(self, t.t_client_id, t.transaction_id, "dispute")
         IN IF r.result # Ok
            THEN r
            ELSE [r EXCEPT !.disputes = @ \cup {t.transaction_id}]

\* handle_resolve that looks the transaction up before it checks the dispute set
handle_resolve_lookup_first(self, t) ==
    LET r == handle_transaction_without_amount(self, t.t_client_id, t.transaction_id, "resolve")
    IN IF r.result[1] \in {"ClientNotFound", "TransactionNotFound", "NotClientOwnedTransaction"}
       THEN Returns(r.result, self)
       ELSE IF t.transaction_id \notin self.disputes
       THEN Returns(TransactionNotDisputed(t.transaction_id), self)
       ELSE IF r.result # Ok
       THEN r
       ELSE [r EXCEPT !.disputes = @ \ {t.transaction_id}]

handle_resolve(self, t) ==
    IF t.transaction_id \notin self.disputes
    THEN Returns(TransactionNotDisputed(t.transaction_id), self)
    ELSE LET r == handle_transaction_without_amount(self, t.t_client_id, t.transaction_id, "resolve")
         IN IF r.result # Ok
            THEN r
            ELSE [r EXCEPT !.disputes = @ \ {t.transaction_id}]

\* handle_chargeback that leaves the id in the dispute set
handle_chargeback_keeps_dispute(self, t) ==
    IF t.transaction_id \notin self.disputes
    THEN Returns(TransactionNotDisputed(t.transaction_id), self)
    ELSE handle_transaction_without_amount(self, t.t_client_id, t.transaction_id, "chargeback")

\* handle_chargeback that drops the record of the deposit it reverses
handle_chargeback_removes_record(self, t) ==
    IF t.transaction_id \notin self.disputes
    THEN Returns(TransactionNotDisputed(t.transaction_id), self)
    ELSE LET r == handle_transaction_without_amount(self, t.t_client_id, t.transaction_id, "chargeback")
         IN IF r.result # Ok
            THEN r
            ELSE [r EXCEPT !.disputes = @ \ {t.transaction_id},
                           !.transactions_database =
                               [k \in DOMAIN @ \ {t.transaction_id} |-> @[k]]]

handle_chargeback(self, t) ==
    IF t.transaction_id \notin self.disputes
    THEN Returns(TransactionNotDisputed(t.transaction_id), self)
    ELSE LET r == handle_transaction_without_amount(self, t.t_client_id, t.transaction_id, "chargeback")
         IN IF r.result # Ok
            THEN r
            ELSE [r EXCEPT !.disputes = @ \ {t.transaction_id}]

handle_transaction(self, t) ==
    CASE t.t_type = "Deposit" -> handle_deposit(self, t)
      [] t.t_type = "Withdrawal" -> handle_withdrawals(self, t)
      [] t.t_type = "Dispute" -> handle_dispute(self, t)
      [] t.t_type = "Resolve" -> handle_resolve(self, t)
      [] t.t_type = "Chargeback" -> handle_chargeback(self, t)

----------------------------------------------------------------------------
(* The engine driven by any sequence of transactions, one call at a time *)

Transaction(ty, amounts) ==
    [t_type : {ty}, t_client_id : ClientIds, transaction_id : TransactionIds,
     amount : amounts]

\* the tasks that share the engine (clones of it), and a task between calls
Tasks == 1..MaxTask
Idle == [pc |-> "idle", transaction |-> None]

\* the engine as the next call finds it
engine == [clients |-> clients, transactions_database |-> transactions_database,
           disputes |-> disputes]

Init ==
    /\ clients = PaymentsEngine_new.clients
    /\ transactions_database = PaymentsEngine_new.transactions_database
    /\ disputes = PaymentsEngine_new.disputes
    /\ charged_back = {}
    /\ accepted = [c \in ClientIds |-> [deposits |-> 0, withdrawals |-> 0, chargebacks |-> 0]]
    /\ tasks = [k \in Tasks |-> Idle]
    /\ log = << >>
    /\ driver = [pc |-> "for", iter |-> << >>, stdout |-> None]

\* the history of accepted amounts after one more amount of client c
Accepted(c, kind, amount) == [accepted EXCEPT ![c][kind] = @ + amount]

\* what one call of handle_transaction leaves; a rejected call returns its
\* error to the caller, who drops it
Handled(t) ==
    LET r == handle_transaction(engine, t)
    IN /\ clients' = r.clients
       /\ transactions_database' = r.transactions_database
       /\ disputes' = r.disputes
       /\ charged_back' = IF t.t_type = "Chargeback" /\ r.result = Ok
                          THEN charged_back \cup {t.transaction_id}
                          ELSE charged_back
       /\ accepted' =
             IF r.result # Ok THEN accepted
             ELSE CASE t.t_type = "Deposit" ->
                           Accepted(t.t_client_id, "deposits", t.amount[1])
                    [] t.t_type = "Withdrawal" ->
                           Accepted(t.t_client_id, "withdrawals", t.amount[1])
                    [] t.t_type = "Chargeback" ->
                           Accepted(t.t_client_id, "chargebacks",
                                    get(transactions_database, t.transaction_id)[1][2])
                    [] OTHER -> accepted

\* one call of handle_transaction by the only caller
Call(t) ==
    /\ Handled(t)
    /\ UNCHANGED <<tasks, log, driver>>

Deposits == Transaction("Deposit", OptAmounts)
Withdrawals == Transaction("Withdrawal", OptAmounts)
Disputes == Transaction("Dispute", {None})
Resolves == Transaction("Resolve", {None})
Chargebacks == Transaction("Chargeback", {None})
AllTransactions == Deposits \cup Withdrawals \cup Disputes \cup Resolves \cup Chargebacks

\* the arms of handle_transaction's match, one action each
Deposit ==
    \E t \in Deposits :
        /\ t.t_type = "Deposit"
        /\ Call(t)
Withdrawal ==
    \E t \in Withdrawals :
        /\ t.t_type = "Withdrawal"
        /\ Call(t)
Dispute ==
    \E t \in Disputes :
        /\ t.t_type = "Dispute"
        /\ Call(t)
Resolve ==
    \E t \in Resolves :
        /\ t.t_type = "Resolve"
        /\ Call(t)
Chargeback ==
    \E t \in Chargebacks :
        /\ t.t_type = "Chargeback"
        /\ Call(t)

Next == Deposit \/ Withdrawal \/ Dispute \/ Resolve \/ Chargeback

Spec == Init /\ [][Next]_vars

----------------------------------------------------------------------------
(* The engine shared by several tasks.  Each map of the engine sits behind *)
(* its own tokio RwLock, and a handler takes them one await at a time: a   *)
(* step of a task runs from one await of a lock to the next one.  A guard  *)
(* that is a temporary of an `if` condition or of a statement is dropped   *)
(* within the step that takes it; the write guard of clients is the only   *)
(* one a task holds while it awaits another lock: write_client_lock in     *)
(* handle_deposit, and the scrutinee of the `if let` in                    *)
(* handle_transaction_without_amount.                                      *)

pc_of(k) == tasks[k].pc
transaction_of(k) == tasks[k].transaction[1]

\* a mutant of HoldsClientsWrite: the guard of clients is kept until the
\* handler has written the dispute set
HoldsClientsWrite_through_disputes ==
    {k \in Tasks : pc_of(k) \in {"deposit_store_write", "store_read",
                                  "disputes_insert", "disputes_remove"}}

\* the tasks that hold the write guard of clients
HoldsClientsWrite == {k \in Tasks : pc_of(k) \in {"deposit_store_write", "store_read"}}

Goto(k, pc) == tasks' = [tasks EXCEPT ![k].pc = pc]
Return(k) == tasks' = [tasks EXCEPT ![k] = Idle]

\* the arm of handle_transaction's match the call enters
Entry(t) ==
    CASE t.t_type = "Deposit" -> "handle_deposit"
      [] t.t_type = "Withdrawal" -> "handle_withdrawals"
      [] t.t_type = "Dispute" -> "handle_dispute"
      [] t.t_type = "Resolve" -> "handle_resolve"
      [] t.t_type = "Chargeback" -> "handle_chargeback"

\* a task calls handle_transaction
Spawn(k) ==
    /\ pc_of(k) = "idle"
    /\ Len(log) < MaxCalls
    /\ \E t \in AllTransactions :
          /\ tasks' = [tasks EXCEPT ![k] = [pc |-> Entry(t), transaction |-> Some(t)]]
          /\ log' = Append(log, t)
    /\ UNCHANGED <<clients, transactions_database, disputes, charged_back, accepted, driver>>

\* handle_deposit and handle_withdrawals: the store is read under its read
\* guard, which is dropped before clients.write() is awaited
StoreCheck(k) ==
    /\ pc_of(k) \in {"handle_deposit", "handle_withdrawals"}
    /\ LET t == transaction_of(k)
       IN IF contains_key(transactions_database, t.transaction_id)
          THEN Return(k)
          ELSE IF t.amount # None
          THEN Goto(k, IF t.t_type = "Deposit" THEN "deposit_clients_write"
                                               ELSE "withdrawal_clients_write")
          ELSE Return(k)
    /\ UNCHANGED <<clients, transactions_database, disputes, charged_back, accepted, log, driver>>

\* handle_deposit: clients.write() is granted, the account is got or created
\* and credited; the guard is kept while the store's write guard is awaited
DepositCredit(k) ==
    /\ pc_of(k) = "deposit_clients_write"
    /\ HoldsClientsWrite = {}
    /\ LET t == transaction_of(k)
           write_client_lock == or_insert(clients, t.t_client_id, ClientAccount_new)
           r == deposit(write_client_lock[t.t_client_id], t.amount[1])
       IN IF r.res # "Ok"
          THEN clients' = write_client_lock /\ Return(k) /\ UNCHANGED accepted
          ELSE /\ clients' = [write_client_lock EXCEPT ![t.t_client_id] = r.self]
               /\ accepted' = Accepted(t.t_client_id, "deposits", t.amount[1])
               /\ Goto(k, "deposit_store_write")
    /\ UNCHANGED <<transactions_database, disputes, charged_back, log, driver>>

\* handle_deposit: the store's write guard is granted, the deposit recorded,
\* both guards dropped
DepositRecord(k) ==
    /\ pc_of(k) = "deposit_store_write"
    /\ LET t == transaction_of(k)
       IN transactions_database' =
              insert(transactions_database, t.transaction_id,
                     <<t.t_client_id, t.amount[1]>>)
    /\ Return(k)
    /\ UNCHANGED <<clients, disputes, charged_back, accepted, log, driver>>

\* handle_withdrawals: clients.write() is granted, the account is got or
\* created and debited
WithdrawalDebit(k) ==
    /\ pc_of(k) = "withdrawal_clients_write"
    /\ HoldsClientsWrite = {}
    /\ LET t == transaction_of(k)
           write_client_lock == or_insert(clients, t.t_client_id, ClientAccount_new)
           r == withdrawal(write_client_lock[t.t_client_id], t.amount[1])
       IN IF r.res # "Ok"
          THEN clients' = write_client_lock /\ UNCHANGED accepted
          ELSE /\ clients' = [write_client_lock EXCEPT ![t.t_client_id] = r.self]
               /\ accepted' = Accepted(t.t_client_id, "withdrawals", t.amount[1])
    /\ Return(k)
    /\ UNCHANGED <<transactions_database, disputes, charged_back, log, driver>>

\* handle_dispute, handle_resolve and handle_chargeback: the dispute set is
\* read under its read guard, which is dropped before
\* handle_transaction_without_amount is entered
DisputesCheck(k) ==
    /\ pc_of(k) \in {"handle_dispute", "handle_resolve", "handle_chargeback"}
    /\ LET t == transaction_of(k)
       IN IF (t.transaction_id \in disputes) = (t.t_type = "Dispute")
          THEN Return(k)
          ELSE Goto(k, "clients_write")
    /\ UNCHANGED <<clients, transactions_database, disputes, charged_back, accepted, log, driver>>

\* handle_transaction_without_amount: clients.write() is granted and the
\* account looked up; the guard is kept while the store's read guard is awaited
AccountLookup(k) ==
    /\ pc_of(k) = "clients_write"
    /\ HoldsClientsWrite = {}
    /\ IF transaction_of(k).t_client_id \in DOMAIN clients
       THEN Goto(k, "store_read")
       ELSE Return(k)
    /\ UNCHANGED <<clients, transactions_database, disputes, charged_back, accepted, log, driver>>

\* handle_transaction_without_amount: the store's read guard is granted, the
\* record looked up, the owner checked and the closure applied to the account;
\* both guards are dropped, and the handler awaits disputes.write() if the
\* result is Ok
AccountAction(k) ==
    /\ pc_of(k) = "store_read"
    /\ LET t == transaction_of(k)
           r == handle_transaction_without_amount(engine, t.t_client_id, t.transaction_id,
                    CASE t.t_type = "Dispute" -> "dispute"
                      [] t.t_type = "Resolve" -> "resolve"
                      [] t.t_type = "Chargeback" -> "chargeback")
       IN /\ clients' = r.clients
          /\ IF r.result # Ok
             THEN Return(k)
             ELSE Goto(k, IF t.t_type = "Dispute" THEN "disputes_insert"
                                                  ELSE "disputes_remove")
          /\ accepted' = IF r.result = Ok /\ t.t_type = "Chargeback"
                         THEN Accepted(t.t_client_id, "chargebacks",
                                       get(transactions_database, t.transaction_id)[1][2])
                         ELSE accepted
    /\ UNCHANGED <<transactions_database, disputes, charged_back, log, driver>>

\* handle_dispute: disputes.write() is granted and the id inserted
DisputesInsert(k) ==
    /\ pc_of(k) = "disputes_insert"
    /\ disputes' = disputes \cup {transaction_of(k).transaction_id}
    /\ Return(k)
    /\ UNCHANGED <<clients, transactions_database, charged_back, accepted, log, driver>>

\* handle_resolve and handle_chargeback: disputes.write() is granted and the
\* id removed
DisputesRemove(k) ==
    /\ pc_of(k) = "disputes_remove"
    /\ disputes' = disputes \ {transaction_of(k).transaction_id}
    /\ charged_back' = IF transaction_of(k).t_type = "Chargeback"
                       THEN charged_back \cup {transaction_of(k).transaction_id}
                       ELSE charged_back
    /\ Return(k)
    /\ UNCHANGED <<clients, transactions_database, accepted, log, driver>>

ConcurrentNext ==
    \E k \in Tasks :
        \/ Spawn(k)
        \/ StoreCheck(k)
        \/ DepositCredit(k)
        \/ DepositRecord(k)
        \/ WithdrawalDebit(k)
        \/ DisputesCheck(k)
        \/ AccountLookup(k)
        \/ AccountAction(k)
        \/ DisputesInsert(k)
        \/ DisputesRemove(k)

ConcurrentSpec == Init /\ [][ConcurrentNext]_vars

----------------------------------------------------------------------------
(* The locks of the engine, read off the await a task stands at.  A guard  *)
(* taken and dropped with no await in between is taken and dropped within  *)
(* one step: the read guards of the checks, the store's guards and the     *)
(* guards of disputes are of this kind, and so is the read guard of        *)
(* write_state.                                                            *)

\* the lock whose guard the task awaits
Awaits(k) ==
    CASE pc_of(k) \in {"handle_deposit", "handle_withdrawals"} -> "transactions_database"
      [] pc_of(k) \in {"deposit_clients_write", "withdrawal_clients_write"} -> "clients"
      [] pc_of(k) = "deposit_store_write" -> "transactions_database"
      [] pc_of(k) \in {"handle_dispute", "handle_resolve", "handle_chargeback"} -> "disputes"
      [] pc_of(k) = "clients_write" -> "clients"
      [] pc_of(k) = "store_read" -> "transactions_database"
      [] pc_of(k) \in {"disputes_insert", "disputes_remove"} -> "disputes"
      [] pc_of(k) = "write_state" -> "clients"
      [] OTHER -> "none"

\* the locks whose guard the task holds while it awaits
Holds(k) == IF k \in HoldsClientsWrite THEN {"clients"} ELSE {}

\* a task calls write_state
WriteStateCall(k) ==
    /\ pc_of(k) = "idle"
    /\ Goto(k, "write_state")
    /\ UNCHANGED <<clients, transactions_database, disputes, charged_back, accepted, log, driver>>

\* write_state: clients.read() is granted, the rows are written to the buffer
\* and the guard is dropped with the return
WriteStateRead(k) ==
    /\ pc_of(k) = "write_state"
    /\ HoldsClientsWrite = {}
    /\ Return(k)
    /\ UNCHANGED <<clients, transactions_database, disputes, charged_back, accepted, log, driver>>

\* the step of a call that is under way
TaskStep(k) ==
    \/ StoreCheck(k)
    \/ DepositCredit(k)
    \/ DepositRecord(k)
    \/ WithdrawalDebit(k)
    \/ DisputesCheck(k)
    \/ AccountLookup(k)
    \/ AccountAction(k)
    \/ DisputesInsert(k)
    \/ DisputesRemove(k)
    \/ WriteStateRead(k)

LockNext ==
    \E k \in Tasks :
        \/ Spawn(k)
        \/ WriteStateCall(k)
        \/ StoreCheck(k)
        \/ DepositCredit(k)
        \/ DepositRecord(k)
        \/ WithdrawalDebit(k)
        \/ DisputesCheck(k)
        \/ AccountLookup(k)
        \/ AccountAction(k)
        \/ DisputesInsert(k)
        \/ DisputesRemove(k)
        \/ WriteStateRead(k)

LockSpec == Init /\ [][LockNext]_vars

----------------------------------------------------------------------------
(* transaction.rs: the decoder of the input records.  A record is one line *)
(* of the file after the header: the type column as written, the client    *)
(* and tx columns, and the amount column, which the flexible reader allows *)
(* to be missing (None).                                                   *)

TypeNames == {"deposit", "withdrawal", "dispute", "resolve", "chargeback", "test"}

Records == [type : TypeNames, client : ClientIds, tx : TransactionIds, amount : OptAmounts]

DeOk(v) == [is_ok |-> TRUE, value |-> v]
DeErr == [is_ok |-> FALSE]

\* enum Type with its serde renames; any other name is an unknown variant
Type(name) ==
    CASE name = "deposit" -> DeOk("Deposit")
      [] name = "withdrawal" -> DeOk("Withdrawal")
      [] name = "dispute" -> DeOk("Dispute")
      [] name = "resolve" -> DeOk("Resolve")
      [] name = "chargeback" -> DeOk("Chargeback")
      [] OTHER -> DeErr

\* a mutant of de_decimal_non_negative: the sign is not looked at
de_decimal_non_negative_signed(opt) ==
    IF opt # None THEN DeOk(Some(opt[1])) ELSE DeOk(None)

\* the value is handed on with the digits it was written with
de_decimal_non_negative(opt) ==
    IF opt # None
    THEN IF opt[1] < 0 THEN DeErr ELSE DeOk(Some(opt[1]))
    ELSE DeOk(None)

\* #[derive(Deserialize)] on Transaction: the first field that fails to
\* decode fails the record
deserialize(record) ==
    LET ty == Type(record.type)
        amount == de_decimal_non_negative(record.amount)
    IN IF ~ty.is_ok THEN DeErr
       ELSE IF ~amount.is_ok THEN DeErr
       ELSE DeOk([t_type |-> ty.value, t_client_id |-> record.client,
                  transaction_id |-> record.tx, amount |-> amount.value])

----------------------------------------------------------------------------
(* payments_engine.rs, write_state: one row per account, the three amounts *)
(* printed with four decimal places.  rust_decimal prints a value that has *)
(* more places rounded to the nearest, the half to the even digit.  The    *)
(* rows come in the order of the map's iteration, which the map does not   *)
(* fix: the report is the function from client id to row.                  *)

fmt_4(v) ==
    LET q == v \div 10
        r == v % 10
    IN IF r < 5 \/ (r = 5 /\ q % 2 = 0) THEN q * 10 ELSE (q + 1) * 10

write_state(self) ==
    [c \in DOMAIN self.clients |->
        [available |-> fmt_4(self.clients[c].available),
         held |-> fmt_4(self.clients[c].held),
         total |-> fmt_4(self.clients[c].total),
         locked |-> self.clients[c].locked]]

----------------------------------------------------------------------------
(* main.rs: main spawns one start_transactions_service over the input      *)
(* file, waits for it, and prints the report.  The service reads the file  *)
(* record by record; a file is finite, here of at most MaxRecords records. *)

\* Ok(transaction) arm of the loop: the engine handles the transaction, and
\* an error it returns is printed to stderr
ServiceTransaction ==
    /\ driver.pc = "for"
    /\ Len(driver.iter) < MaxRecords
    /\ \E record \in Records :
          /\ deserialize(record).is_ok
          /\ Handled(deserialize(record).value)
          /\ driver' = [driver EXCEPT !.iter = Append(@, record)]
    /\ UNCHANGED <<tasks, log>>

\* a mutant of ServiceDecodeError: the error ends the program
ServiceDecodeError_fatal ==
    /\ driver.pc = "for"
    /\ Len(driver.iter) < MaxRecords
    /\ \E record \in Records :
          /\ ~deserialize(record).is_ok
          /\ driver' = [driver EXCEPT !.iter = Append(@, record), !.pc = "exit"]
    /\ UNCHANGED <<clients, transactions_database, disputes, charged_back, accepted, tasks, log>>

\* Err(err) arm of the loop: the error is printed to stderr
ServiceDecodeError ==
    /\ driver.pc = "for"
    /\ Len(driver.iter) < MaxRecords
    /\ \E record \in Records :
          /\ ~deserialize(record).is_ok
          /\ driver' = [driver EXCEPT !.iter = Append(@, record)]
    /\ UNCHANGED <<clients, transactions_database, disputes, charged_back, accepted, tasks, log>>

\* the reader is exhausted: the service returns and join_all completes
ServiceEnd ==
    /\ driver.pc = "for"
    /\ driver' = [driver EXCEPT !.pc = "write_state"]
    /\ UNCHANGED <<clients, transactions_database, disputes, charged_back, accepted, tasks, log>>

\* main prints the report and returns
MainWriteState ==
    /\ driver.pc = "write_state"
    /\ driver' = [driver EXCEPT !.pc = "exit", !.stdout = Some(write_state(engine))]
    /\ UNCHANGED <<clients, transactions_database, disputes, charged_back, accepted, tasks, log>>

DriverNext == ServiceTransaction \/ ServiceDecodeError \/ ServiceEnd \/ MainWriteState

DriverSpec == Init /\ [][DriverNext]_vars

\* the runtime keeps polling main and the service it spawned
FairDriverSpec == DriverSpec /\ WF_vars(DriverNext)

----------------------------------------------------------------------------
(* main.rs with several services: main spawns one start_transactions_      *)
(* service per input file (the second spawn of main is commented out in    *)
(* the source) and the services share PAYMENTS_ENGINE.  Each task is a     *)
(* service; driver.iter keeps, per service, the records its reader has     *)
(* yielded; log keeps the transactions handled, each with its service, in  *)
(* the order handled.  The files hold at most MaxRecords records in all.   *)

ServicesInit ==
    /\ clients = PaymentsEngine_new.clients
    /\ transactions_database = PaymentsEngine_new.transactions_database
    /\ disputes = PaymentsEngine_new.disputes
    /\ charged_back = {}
    /\ accepted = [c \in ClientIds |-> [deposits |-> 0, withdrawals |-> 0, chargebacks |-> 0]]
    /\ tasks = [k \in Tasks |-> [pc |-> "for", transaction |-> None]]
    /\ log = << >>
    /\ driver = [pc |-> "join_all", iter |-> [k \in Tasks |-> << >>], stdout |-> None]

\* the services that hold the guard of PAYMENTS_ENGINE
HoldsEngine == {k \in Tasks : pc_of(k) = "handle_transaction"}

\* the records read by all the services
RecordsRead == {<<k, i>> \in Tasks \X (1..MaxRecords) : i <= Len(driver.iter[k])}

\* the reader of service k yields a record that decodes: the service awaits
\* PAYMENTS_ENGINE.lock()
ServiceNext(k) ==
    /\ pc_of(k) = "for"
    /\ Cardinality(RecordsRead) < MaxRecords
    /\ \E record \in Records :
          /\ deserialize(record).is_ok
          /\ tasks' = [tasks EXCEPT ![k] = [pc |-> "lock",
                                            transaction |-> Some(deserialize(record).value)]]
          /\ driver' = [driver EXCEPT !.iter[k] = Append(@, record)]
    /\ UNCHANGED <<clients, transactions_database, disputes, charged_back, accepted, log>>

\* the reader of service k yields a record that does not decode
ServiceNextError(k) ==
    /\ pc_of(k) = "for"
    /\ Cardinality(RecordsRead) < MaxRecords
    /\ \E record \in Records :
          /\ ~deserialize(record).is_ok
          /\ driver' = [driver EXCEPT !.iter[k] = Append(@, record)]
    /\ UNCHANGED <<clients, transactions_database, disputes, charged_back, accepted, tasks, log>>

\* a mutant of ServiceLock: the service does not wait for the guard
ServiceLock_unguarded(k) ==
    /\ pc_of(k) = "lock"
    /\ Goto(k, "handle_transaction")
    /\ UNCHANGED <<clients, transactions_database, disputes, charged_back, accepted, log, driver>>

\* PAYMENTS_ENGINE.lock() is granted to service k
ServiceLock(k) ==
    /\ pc_of(k) = "lock"
    /\ HoldsEngine = {}
    /\ driver.pc # "write_state"
    /\ Goto(k, "handle_transaction")
    /\ UNCHANGED <<clients, transactions_database, disputes, charged_back, accepted, log, driver>>

\* service k has the engine handle its transaction, prints the error if
\* there is one, and drops the guard at the end of the arm
ServiceHandle(k) ==
    /\ pc_of(k) = "handle_transaction"
    /\ Handled(transaction_of(k))
    /\ log' = Append(log, [service |-> k, transaction |-> transaction_of(k)])
    /\ tasks' = [tasks EXCEPT ![k] = [pc |-> "for", transaction |-> None]]
    /\ UNCHANGED driver

\* the reader of service k is exhausted: the service returns
ServiceReturn(k) ==
    /\ pc_of(k) = "for"
    /\ Goto(k, "done")
    /\ UNCHANGED <<clients, transactions_database, disputes, charged_back, accepted, log, driver>>

\* a mutant of MainJoinAll: main does not wait for the services
MainJoinAll_no_wait ==
    /\ driver.pc = "join_all"
    /\ HoldsEngine = {}
    /\ driver' = [driver EXCEPT !.pc = "write_state"]
    /\ UNCHANGED <<clients, transactions_database, disputes, charged_back, accepted, tasks, log>>

\* set.join_all() completes when every service has returned, and
\* PAYMENTS_ENGINE.lock() is granted to main
MainJoinAll ==
    /\ driver.pc = "join_all"
    /\ \A k \in Tasks : pc_of(k) = "done"
    /\ HoldsEngine = {}
    /\ driver' = [driver EXCEPT !.pc = "write_state"]
    /\ UNCHANGED <<clients, transactions_database, disputes, charged_back, accepted, tasks, log>>

\* main prints the report and returns
MainReport ==
    /\ driver.pc = "write_state"
    /\ driver' = [driver EXCEPT !.pc = "exit", !.stdout = Some(write_state(engine))]
    /\ UNCHANGED <<clients, transactions_database, disputes, charged_back, accepted, tasks, log>>

ServicesNext ==
    \/ \E k \in Tasks :
          \/ ServiceNext(k)
          \/ ServiceNextError(k)
          \/ ServiceLock(k)
          \/ ServiceHandle(k)
          \/ ServiceReturn(k)
    \/ MainJoinAll
    \/ MainReport

ServicesSpec == ServicesInit /\ [][ServicesNext]_vars

----------------------------------------------------------------------------
(* What the properties below speak of *)

\* the call left the ledger, the store and the dispute set as it found them
Unchanged(r) ==
    /\ r.clients = clients
    /\ r.transactions_database = transactions_database
    /\ r.disputes = disputes

\* the engine a call leaves to the next one
After(r) == [clients |-> r.clients, transactions_database |-> r.transactions_database,
             disputes |-> r.disputes]

\* the engine after the transactions of seq were handled one at a time
RECURSIVE Serial(_, _)
Serial(self, seq) ==
    IF seq = << >> THEN self
    ELSE Serial(After(handle_transaction(self, Head(seq))), Tail(seq))

\* the orders the calls of the log can be put in
Orders == {p \in [1..Len(log) -> 1..Len(log)] : \A i, j \in 1..Len(log) : p[i] = p[j] => i = j}

\* what a new engine is left as by the calls of the log in each serial order
SerialOutcomes ==
    {Serial(PaymentsEngine_new, [i \in 1..Len(log) |-> log[p[i]]]) : p \in Orders}

\* the account a deposit or a withdrawal of client c acts on
AccountReached(c) == or_insert(clients, c, ClientAccount_new)[c]

Owner(id) == transactions_database[id][1]
StoredAmount(id) == transactions_database[id][2]

RECURSIVE SumOfAmounts(_)
SumOfAmounts(ids) ==
    IF ids = {} THEN 0
    ELSE LET id == CHOOSE x \in ids : TRUE
         IN StoredAmount(id) + SumOfAmounts(ids \ {id})

DisputedBy(c) == {id \in disputes : id \in DOMAIN transactions_database /\ Owner(id) = c}

IsLocked(map, c) == c \in DOMAIN map /\ map[c].locked

\* the checks of the engine that come before the account's own let t through
ReachesAccount(t) ==
    CASE t.t_type \in {"Deposit", "Withdrawal"} ->
            /\ ~contains_key(transactions_database, t.transaction_id)
            /\ t.amount # None
      [] t.t_type = "Dispute" ->
            /\ t.transaction_id \notin disputes
            /\ contains_key(transactions_database, t.transaction_id)
            /\ Owner(t.transaction_id) = t.t_client_id
      [] t.t_type = "Resolve" ->
            /\ t.transaction_id \in disputes
            /\ contains_key(transactions_database, t.transaction_id)
            /\ Owner(t.transaction_id) = t.t_client_id
      [] OTHER -> FALSE

----------------------------------------------------------------------------
(* C1: in every reachable state, every account of the ledger has           *)
(* total = available + held, whether the transactions were accepted or not *)
C1_TotalIsAvailablePlusHeld ==
    \A c \in DOMAIN clients :
        clients[c].total = clients[c].available + clients[c].held

\* an account with funds held and available driven below zero by a dispute
\* that followed a withdrawal
C1_Witness ==
    \E c \in DOMAIN clients : clients[c].held > 0 /\ clients[c].available < 0

(* C2: a call of handle_transaction that returns an error leaves the       *)
(* ledger (the set of client ids with an account included), the store and  *)
(* the dispute set exactly as they were                                    *)
C2_RejectedLeavesNoTrace ==
    \A t \in AllTransactions :
        LET r == handle_transaction(engine, t)
        IN r.result # Ok => Unchanged(r)

(* C3: a withdrawal of a non-negative amount that reaches an unlocked      *)
(* account fails with InsufficientBalance iff available < amount;          *)
(* otherwise (amount = available included) it succeeds and takes exactly   *)
(* amount from available and total, held and locked unchanged; on          *)
(* InsufficientBalance the account is unchanged                            *)
C3_WithdrawalIffSufficient ==
    \A t \in Withdrawals :
        LET c == t.t_client_id
            a == AccountReached(c)
            r == handle_transaction(engine, t)
        IN (/\ t.amount # None
            /\ t.amount[1] >= 0
            /\ ~contains_key(transactions_database, t.transaction_id)
            /\ ~a.locked)
           => /\ r.result = InsufficientBalance <=> a.available < t.amount[1]
              /\ a.available >= t.amount[1] =>
                    /\ r.result = Ok
                    /\ r.clients[c] = [a EXCEPT !.available = @ - t.amount[1],
                                                !.total = @ - t.amount[1]]
              /\ r.result = InsufficientBalance => r.clients[c] = a

(* C4: round trip: for an unlocked account and a non-negative amount A, a  *)
(* deposit of A under a fresh id followed at once by a withdrawal of A     *)
(* both succeed and restore available and total, held unaffected           *)
C4_DepositWithdrawRoundTrip ==
    \A c \in ClientIds, A \in 0..MaxAmount :
      \A d \in TransactionIds \ DOMAIN transactions_database :
        \A w \in TransactionIds \ (DOMAIN transactions_database \cup {d}) :
          LET a == AccountReached(c)
              r1 == handle_transaction(engine,
                        [t_type |-> "Deposit", t_client_id |-> c,
                         transaction_id |-> d, amount |-> Some(A)])
              r2 == handle_transaction(
                        [clients |-> r1.clients,
                         transactions_database |-> r1.transactions_database,
                         disputes |-> r1.disputes],
                        [t_type |-> "Withdrawal", t_client_id |-> c,
                         transaction_id |-> w, amount |-> Some(A)])
          IN ~a.locked =>
                /\ r1.result = Ok
                /\ r2.result = Ok
                /\ r2.clients[c].available = a.available
                /\ r2.clients[c].total = a.total
                /\ r2.clients[c].held = a.held

(* C5: a dispute of an id that is in the dispute set is rejected with      *)
(* TransactionAlreadyDisputed and changes nothing; hence an id is held at  *)
(* most once at a time: each account holds exactly the amounts of its      *)
(* deposits under dispute                                                  *)
C5_RepeatedDisputeRejected ==
    /\ \A t \in Disputes :
          t.transaction_id \in disputes =>
             LET r == handle_transaction(engine, t)
             IN /\ r.result = TransactionAlreadyDisputed(t.transaction_id)
                /\ Unchanged(r)
    /\ \A c \in DOMAIN clients : clients[c].held = SumOfAmounts(DisputedBy(c))

\* a deposit of a positive amount is under dispute, its amount held
C5_Witness ==
    \E id \in disputes :
        /\ StoredAmount(id) > 0
        /\ clients[Owner(id)].held = StoredAmount(id)
        /\ handle_transaction(engine,
               [t_type |-> "Dispute", t_client_id |-> Owner(id),
                transaction_id |-> id, amount |-> None]).result
           = TransactionAlreadyDisputed(id)

(* C6, as stated: after a chargeback of T has been accepted, every later   *)
(* dispute, resolve or chargeback of T by its owner is rejected with       *)
(* TransactionNotDisputed                                                  *)
C6_AllRejectedNotDisputed ==
    \A t \in Disputes \cup Resolves \cup Chargebacks :
        (/\ t.transaction_id \in charged_back
         /\ t.t_client_id = Owner(t.transaction_id))
        => handle_transaction(engine, t).result = TransactionNotDisputed(t.transaction_id)

(* C6, amended: after a chargeback of T has been accepted, every later     *)
(* resolve or chargeback of T by its owner is rejected with                *)
(* TransactionNotDisputed, and every later dispute of T by its owner is    *)
(* rejected with Locked                                                    *)
C6_RejectedAfterChargeback ==
    \A t \in Disputes \cup Resolves \cup Chargebacks :
        (/\ t.transaction_id \in charged_back
         /\ t.t_client_id = Owner(t.transaction_id))
        => handle_transaction(engine, t).result =
              IF t.t_type = "Dispute" THEN Locked
              ELSE TransactionNotDisputed(t.transaction_id)

\* a charged back deposit, its owner locked
C6_Witness ==
    \E id \in charged_back :
        /\ id \notin disputes
        /\ clients[Owner(id)].locked

(* C7: a resolve or a chargeback of an id that is not in the dispute set   *)
(* is rejected with TransactionNotDisputed and changes nothing, before any *)
(* lookup: also when the id was never deposited or the client has no       *)
(* account                                                                 *)
C7_NotDisputedFirst ==
    \A t \in Resolves \cup Chargebacks :
        t.transaction_id \notin disputes =>
            LET r == handle_transaction(engine, t)
            IN /\ r.result = TransactionNotDisputed(t.transaction_id)
               /\ Unchanged(r)

\* while one deposit is under dispute, another id was never deposited: its
\* resolve by a client with an account is answered TransactionNotDisputed
C7_Witness ==
    /\ disputes # {}
    /\ \E t \in Resolves \cup Chargebacks :
          /\ t.transaction_id \notin DOMAIN transactions_database
          /\ t.t_client_id \in DOMAIN clients
          /\ handle_transaction(engine, t).result
             = TransactionNotDisputed(t.transaction_id)

(* C8: once an account is locked, every deposit, withdrawal, dispute and   *)
(* resolve that reaches it is rejected with Locked, and none addressed to  *)
(* it changes the accounts, the store or the dispute set                   *)
C8_LockedRejects ==
    \A t \in Deposits \cup Withdrawals \cup Disputes \cup Resolves :
        (t.t_client_id \in DOMAIN clients /\ clients[t.t_client_id].locked) =>
            LET r == handle_transaction(engine, t)
            IN /\ ReachesAccount(t) => r.result = Locked
               /\ r.result # Ok
               /\ Unchanged(r)

\* a locked account and an id never used: a deposit under it is rejected
\* Locked and not recorded
C8_Witness ==
    \E c \in DOMAIN clients, id \in TransactionIds \ DOMAIN transactions_database :
        LET r == handle_transaction(engine,
                    [t_type |-> "Deposit", t_client_id |-> c,
                     transaction_id |-> id, amount |-> Some(1)])
        IN /\ clients[c].locked
           /\ r.result = Locked
           /\ id \notin DOMAIN r.transactions_database

(* C9: locked goes from false to true only by an accepted chargeback on    *)
(* that account; no deposit, withdrawal, dispute or resolve sets it, and a *)
(* locked account stays locked whatever is handled next                    *)
C9_OnlyChargebackLocks ==
    \A t \in AllTransactions :
        LET r == handle_transaction(engine, t)
        IN \A c \in ClientIds :
              /\ (~IsLocked(clients, c) /\ IsLocked(r.clients, c)) =>
                    /\ t.t_type = "Chargeback"
                    /\ t.t_client_id = c
                    /\ r.result = Ok
              /\ IsLocked(clients, c) => IsLocked(r.clients, c)

\* an account locked by the chargeback of one of its deposits
C9_Witness ==
    \E c \in DOMAIN clients :
        /\ clients[c].locked
        /\ \E id \in charged_back : Owner(id) = c

(* C10: a deposit whose id is in the store is rejected with                *)
(* TransactionAlreadyExists, whichever client it is addressed to; no       *)
(* account is credited and the stored (owner, amount) is not overwritten   *)
C10_DuplicateDepositRejected ==
    \A t \in Deposits :
        contains_key(transactions_database, t.transaction_id) =>
            LET r == handle_transaction(engine, t)
            IN /\ r.result = TransactionAlreadyExists
               /\ r.clients = clients
               /\ r.transactions_database[t.transaction_id]
                  = transactions_database[t.transaction_id]
               /\ Unchanged(r)

\* a recorded deposit, and a deposit under its id by another client and of
\* another amount
C10_Witness ==
    \E t \in Deposits :
        /\ contains_key(transactions_database, t.transaction_id)
        /\ t.t_client_id # Owner(t.transaction_id)
        /\ t.amount # None
        /\ t.amount # Some(StoredAmount(t.transaction_id))
        /\ handle_transaction(engine, t).result = TransactionAlreadyExists

(* C11: a withdrawal is rejected with TransactionAlreadyExists when its id *)
(* was used by a prior transaction: by a recorded deposit, and also by a   *)
(* withdrawal that was accepted just before under the same id              *)
C11_UsedIdRejectsWithdrawal ==
    /\ \A u \in Withdrawals :
          contains_key(transactions_database, u.transaction_id) =>
              handle_transaction(engine, u).result = TransactionAlreadyExists
    /\ \A w \in Withdrawals :
          LET r1 == handle_transaction(engine, w)
          IN r1.result = Ok =>
                \A u \in Withdrawals :
                    u.transaction_id = w.transaction_id =>
                        handle_transaction(After(r1), u).result = TransactionAlreadyExists

C14_DisputeLookupErrors ==
    \A t \in Disputes :
        LET r == handle_transaction(engine, t)
        IN /\ t.t_client_id \notin DOMAIN clients =>
                 r.result = ClientNotFound /\ Unchanged(r)
           /\ (/\ t.t_client_id \in DOMAIN clients
               /\ ~contains_key(transactions_database, t.transaction_id)) =>
                 r.result = TransactionNotFound(t.transaction_id) /\ Unchanged(r)

(* C14, amended: a dispute of an id that is not in the dispute set, by a   *)
(* client that has no account, is rejected with ClientNotFound; a dispute  *)
(* by a client that has an account of an id absent from the store is       *)
(* rejected with TransactionNotFound(id); neither changes anything         *)
C14_DisputeLookupErrorsUndisputed ==
    \A t \in Disputes :
        LET r == handle_transaction(engine, t)
        IN /\ (/\ t.t_client_id \notin DOMAIN clients
               /\ t.transaction_id \notin disputes) =>
                 r.result = ClientNotFound /\ Unchanged(r)
           /\ (/\ t.t_client_id \in DOMAIN clients
               /\ ~contains_key(transactions_database, t.transaction_id)) =>
                 r.result = TransactionNotFound(t.transaction_id) /\ Unchanged(r)

\* a recorded deposit out of the dispute set, disputed by a client without
\* an account, while its owner disputes an id absent from the store
C14_Witness ==
    \E t \in Disputes, u \in Disputes :
        /\ t.t_client_id \notin DOMAIN clients
        /\ contains_key(transactions_database, t.transaction_id)
        /\ t.transaction_id \notin disputes
        /\ handle_transaction(engine, t).result = ClientNotFound
        /\ u.t_client_id = Owner(t.transaction_id)
        /\ ~contains_key(transactions_database, u.transaction_id)
        /\ handle_transaction(engine, u).result = TransactionNotFound(u.transaction_id)

(* C15: an accepted deposit (id, client, amount) adds exactly amount to    *)
(* the client's available and total, leaves its held and locked, every     *)
(* other account and the dispute set as they were, and records             *)
(* id -> (client, amount) in the store; a rejected deposit records nothing *)
C15_DepositEffect ==
    \A t \in Deposits :
        LET c == t.t_client_id
            a == AccountReached(c)
            r == handle_transaction(engine, t)
        IN /\ r.result = Ok =>
                 /\ t.amount # None
                 /\ r.clients[c] = [a EXCEPT !.available = @ + t.amount[1],
                                             !.total = @ + t.amount[1]]
                 /\ DOMAIN r.clients = DOMAIN clients \cup {c}
                 /\ \A o \in DOMAIN clients \ {c} : r.clients[o] = clients[o]
                 /\ r.disputes = disputes
                 /\ ~contains_key(transactions_database, t.transaction_id)
                 /\ DOMAIN r.transactions_database
                    = DOMAIN transactions_database \cup {t.transaction_id}
                 /\ r.transactions_database[t.transaction_id] = <<c, t.amount[1]>>
                 /\ \A id \in DOMAIN transactions_database :
                       r.transactions_database[id] = transactions_database[id]
           /\ r.result # Ok => r.transactions_database = transactions_database

\* an account with funds held, and a fresh id under which a deposit of a
\* positive amount to it is accepted
C15_Witness ==
    \E t \in Deposits :
        /\ t.t_client_id \in DOMAIN clients
        /\ clients[t.t_client_id].held > 0
        /\ t.amount # None
        /\ t.amount[1] > 0
        /\ handle_transaction(engine, t).result = Ok

(* C16: a dispute by its owner of a recorded deposit that is not under     *)
(* dispute, on an unlocked account, is accepted whatever is available: it  *)
(* takes exactly the stored amount from available (below zero when funds   *)
(* were withdrawn), adds it to held, leaves total as it was and adds the   *)
(* id to the dispute set; every accepted dispute is of that kind           *)
C16_DisputeEffect ==
    \A t \in Disputes :
        LET c == t.t_client_id
            id == t.transaction_id
            r == handle_transaction(engine, t)
        IN /\ (ReachesAccount(t) /\ ~IsLocked(clients, c)) <=> r.result = Ok
           /\ r.result = Ok =>
                 /\ r.clients = [clients EXCEPT ![c] =
                                    [@ EXCEPT !.available = @ - StoredAmount(id),
                                              !.held = @ + StoredAmount(id)]]
                 /\ r.clients[c].total = clients[c].total
                 /\ r.disputes = disputes \cup {id}
                 /\ r.transactions_database = transactions_database

\* a deposit partly withdrawn: its dispute is accepted and leaves available
\* below zero
C16_Witness ==
    \E t \in Disputes :
        LET r == handle_transaction(engine, t)
        IN /\ r.result = Ok
           /\ clients[t.t_client_id].available >= 0
           /\ clients[t.t_client_id].available < StoredAmount(t.transaction_id)
           /\ r.clients[t.t_client_id].available < 0

(* C17: an accepted dispute followed by the resolve of the same            *)
(* transaction by the same client is a round trip: the resolve is          *)
(* accepted, the accounts and the dispute set are as before the dispute,   *)
(* and the store is the same throughout                                    *)
C17_DisputeResolveRoundTrip ==
    \A t \in Disputes :
        LET r1 == handle_transaction(engine, t)
            r2 == handle_transaction(After(r1), [t EXCEPT !.t_type = "Resolve"])
        IN r1.result = Ok =>
              /\ r2.result = Ok
              /\ r2.clients = clients
              /\ r2.disputes = disputes
              /\ r1.transactions_database = transactions_database
              /\ r2.transactions_database = transactions_database

\* a deposit of a positive amount whose dispute is accepted and changes
\* the account, while another deposit is under dispute
C17_Witness ==
    \E t \in Disputes :
        LET r1 == handle_transaction(engine, t)
        IN /\ r1.result = Ok
           /\ StoredAmount(t.transaction_id) > 0
           /\ r1.clients # clients
           /\ disputes # {}

(* C18: an accepted chargeback is of an id in the dispute set by its       *)
(* owner; it takes exactly the stored amount from the owner's held and     *)
(* total, leaves available as it was, sets locked, removes the id from the *)
(* dispute set and leaves every other account and the store as they were   *)
C18_ChargebackEffect ==
    \A t \in Chargebacks :
        LET c == t.t_client_id
            id == t.transaction_id
            r == handle_transaction(engine, t)
        IN /\ (/\ id \in disputes
               /\ contains_key(transactions_database, id)
               /\ Owner(id) = c) <=> r.result = Ok
           /\ r.result = Ok =>
                 /\ r.clients = [clients EXCEPT ![c] =
                                    [@ EXCEPT !.held = @ - StoredAmount(id),
                                              !.total = @ - StoredAmount(id),
                                              !.locked = TRUE]]
                 /\ r.clients[c].available = clients[c].available
                 /\ r.disputes = disputes \ {id}
                 /\ r.transactions_database = transactions_database

\* a deposit of a positive amount under dispute, its owner not locked and
\* with funds available, and the chargeback of it accepted
C18_Witness ==
    \E t \in Chargebacks :
        /\ handle_transaction(engine, t).result = Ok
        /\ StoredAmount(t.transaction_id) > 0
        /\ ~clients[t.t_client_id].locked
        /\ clients[t.t_client_id].available > 0

(* C19: the store is append-only and its records are immutable: a step of  *)
(* the engine, whatever the transaction and whether it is accepted or      *)
(* rejected, keeps every recorded id with the same (owner, amount)         *)
C19_StoreAppendOnly ==
    [][\A id \in DOMAIN transactions_database :
          /\ id \in DOMAIN transactions_database'
          /\ transactions_database'[id] = transactions_database[id]]_vars

\* a deposit that was disputed and charged back is still recorded, next to
\* another record
C19_Witness ==
    \E id \in charged_back :
        /\ contains_key(transactions_database, id)
        /\ StoredAmount(id) > 0
        /\ DOMAIN transactions_database # {id}

(* C20: when several tasks call handle_transaction on the shared engine,   *)
(* the ledger, the store and the dispute set change as one atomic unit:    *)
(* once every call has returned, the three are what the same transactions  *)
(* leave when they are handled one at a time in some serial order          *)
C20_ConcurrentCallsSerializable ==
    (\A k \in Tasks : pc_of(k) = "idle") => engine \in SerialOutcomes

(* C21: under concurrent calls on the shared engine, two disputes (or two  *)
(* resolves, or two chargebacks) of one id do not both take effect: once   *)
(* every call has returned, no account holds more than the amounts of its  *)
(* deposits that are in the dispute set; stated for calls among which no   *)
(* two deposits carry the same id, so that each record was written once    *)
C21_ConcurrentDisputeHeldOnce ==
    (/\ \A k \in Tasks : pc_of(k) = "idle"
     /\ \A i, j \in 1..Len(log) :
           (/\ log[i].t_type = "Deposit"
            /\ log[j].t_type = "Deposit"
            /\ log[i].transaction_id = log[j].transaction_id) => i = j)
    => \A c \in DOMAIN clients : clients[c].held <= SumOfAmounts(DisputedBy(c))

(* C22: under concurrent calls on the shared engine, two deposits that     *)
(* carry the same id are not both accepted: at most one credits an account *)
(* and the record of the id is the one that deposit wrote.  Once every     *)
(* call has returned, and the calls were deposits only, each account       *)
(* totals exactly the amounts of the records it owns                       *)
C22_ConcurrentDepositOnce ==
    (/\ \A k \in Tasks : pc_of(k) = "idle"
     /\ \A i \in 1..Len(log) : log[i].t_type = "Deposit")
    => \A c \in DOMAIN clients :
          clients[c].total =
             SumOfAmounts({id \in DOMAIN transactions_database : Owner(id) = c})

(* C23: a withdrawal, accepted or rejected, leaves the store as it was,    *)
(* and the id of an accepted withdrawal is never disputable: a dispute of  *)
(* it by a client that has an account is rejected with                     *)
(* TransactionNotFound, right after the withdrawal and after any call that *)
(* follows it                                                              *)
C23_WithdrawalNeverDisputable ==
    \A w \in Withdrawals :
        LET r1 == handle_transaction(engine, w)
            id == w.transaction_id
        IN /\ r1.transactions_database = transactions_database
           /\ r1.result = Ok =>
                 /\ \A t \in Disputes :
                       (t.transaction_id = id /\ t.t_client_id \in DOMAIN r1.clients) =>
                           handle_transaction(After(r1), t).result = TransactionNotFound(id)
                 /\ \A u \in AllTransactions :
                       LET r2 == handle_transaction(After(r1), u)
                       IN \A t \in Disputes :
                             (t.transaction_id = id /\ t.t_client_id \in DOMAIN r2.clients) =>
                                 handle_transaction(After(r2), t).result
                                 = TransactionNotFound(id)

\* the records the reader has yielded so far
Yielded == {driver.iter[i] : i \in 1..Len(driver.iter)}

UnknownType(record) == ~Type(record.type).is_ok
NegativeAmountField(record) == record.amount # None /\ record.amount[1] < 0
MissingRequiredAmount(record) ==
    record.type \in {"deposit", "withdrawal"} /\ record.amount = None

(* C24, as stated: every record the reader has yielded that has an unknown *)
(* type, a negative amount, or is a deposit or a withdrawal without an     *)
(* amount was rejected by the decoder                                      *)
C24_MalformedRejectedByDecoder ==
    \A record \in Yielded :
        (UnknownType(record) \/ NegativeAmountField(record) \/ MissingRequiredAmount(record))
            => ~deserialize(record).is_ok

(* C24, amended: a record with an unknown type or a negative amount is     *)
(* rejected by the decoder; a deposit or a withdrawal without an amount is *)
(* decoded, with the amount None, and it is handle_transaction that        *)
(* rejects it, leaving the ledger, the store and the dispute set unchanged *)
C24_MalformedRejectedBeforeLedger ==
    \A record \in Records :
        /\ (UnknownType(record) \/ NegativeAmountField(record)) => ~deserialize(record).is_ok
        /\ MissingRequiredAmount(record) =>
              /\ deserialize(record).is_ok
              /\ deserialize(record).value.amount = None
              /\ LET r == handle_transaction(engine, deserialize(record).value)
                 IN r.result # Ok /\ Unchanged(r)

C24_Witness ==
    /\ Len(driver.iter) = MaxRecords
    /\ MissingRequiredAmount(driver.iter[MaxRecords])
    /\ driver.iter[MaxRecords].tx \in DOMAIN transactions_database

\* the value, counted in units of 0.00001, has at most four decimal places
FourPlaces(v) == v % 10 = 0

(* C25: amounts read from the input are rounded to four decimal places     *)
(* before any arithmetic: every available, held and total of the ledger    *)
(* and every amount of the store has at most four decimal places           *)
C25_AmountsHaveFourPlaces ==
    /\ \A c \in DOMAIN clients :
          /\ FourPlaces(clients[c].available)
          /\ FourPlaces(clients[c].held)
          /\ FourPlaces(clients[c].total)
    /\ \A id \in DOMAIN transactions_database : FourPlaces(StoredAmount(id))

\* the transactions of the records the decoder accepted, in the order read
Decoded(iter) ==
    LET passed == SelectSeq(iter, LAMBDA record : deserialize(record).is_ok)
    IN [i \in 1..Len(passed) |-> deserialize(passed[i]).value]

(* C26: no rejection is fatal to the driver.  At every point of a run the  *)
(* engine is what a new engine becomes when the transactions decoded from  *)
(* the records read so far are handled once each, in the order read,       *)
(* whatever the decoder or the engine rejected; nothing is printed before  *)
(* the end, and every run ends with the report of that engine printed      *)
C26_DriverAppliesAllAndReports ==
    /\ [](/\ engine = Serial(PaymentsEngine_new, Decoded(driver.iter))
          /\ driver.pc # "exit" => driver.stdout = None
          /\ driver.pc = "exit" => driver.stdout = Some(write_state(engine)))
    /\ <>(driver.pc = "exit")

C26_Witness ==
    /\ driver.pc = "exit"
    /\ Len(driver.iter) = MaxRecords
    /\ \/ ~deserialize(driver.iter[1]).is_ok
       \/ handle_transaction(PaymentsEngine_new, deserialize(driver.iter[1]).value).result # Ok
    /\ deserialize(driver.iter[MaxRecords]).is_ok
    /\ handle_transaction(engine, deserialize(driver.iter[MaxRecords]).value).result
       = TransactionAlreadyExists
    /\ DOMAIN driver.stdout[1] # {}

\* the derived state of a transaction id in an engine, given the ids a
\* chargeback was accepted for
StateOf(self, chargedback, id) ==
    IF id \in self.disputes THEN "Disputed"
    ELSE IF id \in chargedback THEN "ChargedBack"
    ELSE IF contains_key(self.transactions_database, id) THEN "Recorded"
    ELSE "Unknown"

\* the moves of the lifecycle, each with the kind of call that makes it
Lifecycle ==
    {<<"Unknown", "Deposit", "Recorded">>,
     <<"Recorded", "Dispute", "Disputed">>,
     <<"Disputed", "Resolve", "Recorded">>,
     <<"Disputed", "Chargeback", "ChargedBack">>}

\* the results of handling the transactions of seq one after the other
RECURSIVE ResultsOf(_, _)
ResultsOf(self, seq) ==
    IF seq = << >> THEN << >>
    ELSE LET r == handle_transaction(self, Head(seq))
         IN <<r.result>> \o ResultsOf(After(r), Tail(seq))

\* deposit, dispute, resolve, dispute, chargeback of one id by one client
FullLifecycle(d) ==
    LET without(ty) == [d EXCEPT !.t_type = ty, !.amount = None]
    IN <<d, without("Dispute"), without("Resolve"), without("Dispute"), without("Chargeback")>>

(* C27: in sequential processing the derived state of a transaction id     *)
(* moves only along Unknown -> Recorded -> Disputed -> Recorded or         *)
(* ChargedBack: a call changes the state of no id but its own, changes it  *)
(* only when it is accepted, and an accepted deposit, dispute, resolve or  *)
(* chargeback makes exactly the move of its kind; and for an id not in the *)
(* store and a client whose account is not locked, the deposit of a        *)
(* non-negative amount, then dispute, resolve, dispute and chargeback of   *)
(* that id are all accepted                                                *)
C27_LifecycleOfTransactionId ==
    /\ \A t \in AllTransactions :
          LET r == handle_transaction(engine, t)
              chargedback == IF t.t_type = "Chargeback" /\ r.result = Ok
                             THEN charged_back \cup {t.transaction_id}
                             ELSE charged_back
          IN \A id \in TransactionIds :
                LET move == <<StateOf(engine, charged_back, id), t.t_type,
                              StateOf(After(r), chargedback, id)>>
                IN IF id = t.transaction_id /\ r.result = Ok /\ t.t_type # "Withdrawal"
                   THEN move \in Lifecycle
                   ELSE move[1] = move[3]
    /\ \A d \in Deposits :
          (/\ ~contains_key(transactions_database, d.transaction_id)
           /\ ~IsLocked(clients, d.t_client_id)
           /\ d.amount # None
           /\ d.amount[1] >= 0)
          => ResultsOf(engine, FullLifecycle(d)) = <<Ok, Ok, Ok, Ok, Ok>>

C27_Witness ==
    /\ \E id \in TransactionIds : StateOf(engine, charged_back, id) = "ChargedBack"
    /\ \E d \in Deposits :
          /\ d.amount = Some(MaxAmount)
          /\ ResultsOf(engine, FullLifecycle(d)) = <<Ok, Ok, Ok, Ok, Ok>>

(* C28, as stated: deposit checks the amount before the lock: on every     *)
(* account of the ledger a deposit of a negative amount fails with         *)
(* NegativeAmount, a deposit of another amount to a locked account fails   *)
(* with Locked, and a failed deposit leaves the account as it was          *)
C28_DepositNegativeBeforeLocked ==
    \A c \in DOMAIN clients : \A amount \in Amounts :
        LET r == deposit(clients[c], amount)
        IN /\ amount < 0 => r.res = "NegativeAmount"
           /\ (amount >= 0 /\ clients[c].locked) => r.res = "Locked"
           /\ r.res # "Ok" => r.self = clients[c]

(* C28, amended: deposit checks the lock before the amount: on every       *)
(* account of the ledger a deposit to a locked account fails with Locked   *)
(* whatever the amount, a deposit of a negative amount to an unlocked      *)
(* account fails with NegativeAmount, and a failed deposit leaves the      *)
(* account as it was; the engine returns the same error for a deposit      *)
(* whose id is not in the store                                            *)
C28_DepositLockedBeforeNegative ==
    \A c \in DOMAIN clients : \A amount \in Amounts :
        LET r == deposit(clients[c], amount)
        IN /\ clients[c].locked => r.res = "Locked"
           /\ (~clients[c].locked /\ amount < 0) => r.res = "NegativeAmount"
           /\ r.res # "Ok" => r.self = clients[c]
           /\ \A d \in Deposits :
                 (/\ d.t_client_id = c
                  /\ d.amount = Some(amount)
                  /\ ~contains_key(transactions_database, d.transaction_id))
                 => /\ handle_transaction(engine, d).result =
                          IF r.res = "Ok" THEN Ok ELSE ClientAccountError(r.res)
                    /\ r.res # "Ok" => Unchanged(handle_transaction(engine, d))

C28_Witness ==
    \E c \in DOMAIN clients : \E d \in Deposits :
        /\ clients[c].locked
        /\ d.t_client_id = c
        /\ d.amount # None
        /\ d.amount[1] < 0
        /\ handle_transaction(engine, d).result = Locked

(* C29: a deposit or a withdrawal without an amount is rejected with      *)
(* TransactionAlreadyExists when its id is in the store and with           *)
(* InvalidLeger(id) when it is not, and it leaves the ledger, the store    *)
(* and the dispute set as they were                                        *)
C29_StoreCheckBeforeAmountCheck ==
    \A t \in Deposits \cup Withdrawals :
        t.amount = None =>
            LET r == handle_transaction(engine, t)
            IN /\ r.result = IF contains_key(transactions_database, t.transaction_id)
                             THEN TransactionAlreadyExists
                             ELSE InvalidLeger(t.transaction_id)
               /\ Unchanged(r)

C29_Witness ==
    \E t, u \in Withdrawals :
        /\ t.amount = None
        /\ u.amount = None
        /\ handle_transaction(engine, t).result = TransactionAlreadyExists
        /\ handle_transaction(engine, u).result = InvalidLeger(u.transaction_id)
        /\ t.t_client_id \notin DOMAIN clients

(* C30: the lock does not block a chargeback: when a locked account owns   *)
(* a transaction that is in the dispute set, a chargeback of it by the     *)
(* owner is accepted, takes its amount from held and from total, leaves    *)
(* available and the lock as they were and removes the id from the dispute *)
(* set, while a resolve of it by the owner is rejected with Locked and     *)
(* changes nothing, so that the id stays in the dispute set                *)
C30_ChargebackNotBlockedByLock ==
    \A t \in Chargebacks : \A u \in Resolves :
        LET c == t.t_client_id
            id == t.transaction_id
        IN (/\ u.t_client_id = c
            /\ u.transaction_id = id
            /\ IsLocked(clients, c)
            /\ id \in disputes
            /\ contains_key(transactions_database, id)
            /\ Owner(id) = c)
           => LET r == handle_transaction(engine, t)
              IN /\ r.result = Ok
                 /\ r.clients = [clients EXCEPT ![c].held = @ - StoredAmount(id),
                                                ![c].total = @ - StoredAmount(id)]
                 /\ r.disputes = disputes \ {id}
                 /\ r.transactions_database = transactions_database
                 /\ handle_transaction(engine, u).result = Locked
                 /\ Unchanged(handle_transaction(engine, u))

C30_Witness ==
    \E c \in DOMAIN clients : \E id \in disputes :
        /\ clients[c].locked
        /\ contains_key(transactions_database, id)
        /\ Owner(id) = c
        /\ StoredAmount(id) > 0
        /\ charged_back # {}

(* C31: no call destroys an account, and only a deposit or a withdrawal    *)
(* creates one, for its own client: every call leaves every client id of   *)
(* the ledger in the ledger, a dispute, a resolve or a chargeback leaves   *)
(* the set of client ids as it was, and a deposit or a withdrawal adds at  *)
(* most the id of its client, with a new account or with the account the   *)
(* call has acted on                                                       *)
C31_AccountsOnlyCreatedByDepositOrWithdrawal ==
    \A t \in AllTransactions :
        LET r == handle_transaction(engine, t)
        IN /\ DOMAIN clients \subseteq DOMAIN r.clients
           /\ t.t_type \in {"Dispute", "Resolve", "Chargeback"}
                 => DOMAIN r.clients = DOMAIN clients
           /\ t.t_type \in {"Deposit", "Withdrawal"}
                 => DOMAIN r.clients \subseteq DOMAIN clients \cup {t.t_client_id}

C31_Witness ==
    /\ \E c \in ClientIds : c \notin DOMAIN clients
    /\ \E c \in DOMAIN clients : clients[c].locked
    /\ \E t \in Deposits :
          /\ t.t_client_id \notin DOMAIN clients
          /\ t.t_client_id \in DOMAIN handle_transaction(engine, t).clients

(* C32: in sequential processing the held funds of every account are the   *)
(* sum of the stored amounts of the transactions it owns that are in the   *)
(* dispute set: held is never negative, and it is zero for an account that *)
(* owns no id of the dispute set                                           *)
C32_HeldIsSumOfOpenDisputes ==
    \A c \in DOMAIN clients :
        /\ clients[c].held = SumOfAmounts(DisputedBy(c))
        /\ clients[c].held >= 0
        /\ DisputedBy(c) = {} => clients[c].held = 0

C32_Witness ==
    \E c \in DOMAIN clients :
        /\ Cardinality(DisputedBy(c)) = MaxTx
        /\ clients[c].held = MaxTx * MaxAmount

(* C33: in sequential processing every id of the dispute set is the id of  *)
(* a deposit recorded in the store whose owner has an account, and a       *)
(* dispute that is rejected leaves the dispute set as it was               *)
C33_DisputeSetWithinStore ==
    /\ \A id \in disputes :
          /\ contains_key(transactions_database, id)
          /\ Owner(id) \in DOMAIN clients
    /\ \A t \in Disputes :
          handle_transaction(engine, t).result # Ok
              => handle_transaction(engine, t).disputes = disputes

C33_Witness ==
    /\ disputes # {}
    /\ \E t \in Disputes :
          /\ t.transaction_id \notin disputes
          /\ handle_transaction(engine, t).result
             = NotClientOwnedTransaction(t.transaction_id, t.t_client_id)

(* C34: in sequential processing the total of every account is the sum of *)
(* the amounts of its accepted deposits, less the amounts of its accepted  *)
(* withdrawals, less the amounts of its deposits that were charged back; a *)
(* client without an account has had nothing accepted; and no dispute and  *)
(* no resolve changes the total of any account                             *)
C34_TotalIsDepositsLessWithdrawalsLessChargebacks ==
    /\ \A c \in ClientIds :
          IF c \in DOMAIN clients
          THEN clients[c].total = accepted[c].deposits - accepted[c].withdrawals
                                  - accepted[c].chargebacks
          ELSE accepted[c] = [deposits |-> 0, withdrawals |-> 0, chargebacks |-> 0]
    /\ \A t \in Disputes \cup Resolves :
          \A c \in DOMAIN clients :
              handle_transaction(engine, t).clients[c].total = clients[c].total

C34_Witness ==
    \E c \in DOMAIN clients :
        /\ accepted[c].deposits > accepted[c].chargebacks
        /\ accepted[c].withdrawals > 0
        /\ accepted[c].chargebacks > 0
        /\ \E t \in Resolves : handle_transaction(engine, t).result = Locked

(* C35: in sequential processing a charged back transaction stays charged *)
(* back: an id a chargeback was accepted for is not in the dispute set,    *)
(* and every later call that carries this id, of any kind and by any       *)
(* client, is rejected and leaves the ledger, the store and the dispute    *)
(* set as they were                                                        *)
C35_ChargedBackIsTerminal ==
    \A id \in charged_back :
        /\ id \notin disputes
        /\ \A t \in AllTransactions :
              t.transaction_id = id =>
                  /\ handle_transaction(engine, t).result # Ok
                  /\ Unchanged(handle_transaction(engine, t))

C35_Witness ==
    \E id \in charged_back :
        /\ \E t \in Disputes :
              /\ t.transaction_id = id
              /\ handle_transaction(engine, t).result = Locked
        /\ \E t \in Disputes :
              /\ t.transaction_id = id
              /\ handle_transaction(engine, t).result
                 = NotClientOwnedTransaction(id, t.t_client_id)

\* the awaits a call still has before it, at most
Rank(pc) ==
    CASE pc \in {"handle_dispute", "handle_resolve", "handle_chargeback"} -> 4
      [] pc \in {"handle_deposit", "handle_withdrawals", "clients_write"} -> 3
      [] pc \in {"deposit_clients_write", "withdrawal_clients_write", "store_read"} -> 2
      [] pc \in {"deposit_store_write", "disputes_insert", "disputes_remove",
                 "write_state"} -> 1
      [] OTHER -> 0

(* C36: for tasks that run handle_transaction and write_state on a shared  *)
(* engine: no task holds the guard of disputes while it awaits a lock; a   *)
(* task that holds a guard while it awaits holds the guard of clients and  *)
(* awaits transactions_database; a call under way can take its next step   *)
(* exactly when no other task holds the lock it awaits, and when it cannot *)
(* the holder of that lock can; and every step of a call leaves it fewer   *)
(* awaits to go, so that under fair scheduling every call returns          *)
C36_LockProtocolDeadlockFree ==
    /\ [](\A k \in Tasks :
             /\ "disputes" \notin Holds(k)
             /\ Holds(k) # {} =>
                   (Holds(k) = {"clients"} /\ Awaits(k) = "transactions_database")
             /\ pc_of(k) # "idle" =>
                   /\ ENABLED TaskStep(k) <=> \A j \in Tasks \ {k} : Awaits(k) \notin Holds(j)
                   /\ \/ ENABLED TaskStep(k)
                      \/ \E j \in Tasks \ {k} : Awaits(k) \in Holds(j) /\ ENABLED TaskStep(j))
    /\ [][\A k \in Tasks :
             (pc_of(k) # "idle" /\ tasks'[k] # tasks[k])
                 => Rank(tasks'[k].pc) < Rank(pc_of(k))]_vars

C36_Witness ==
    \E j, k \in Tasks :
        /\ Holds(j) = {"clients"}
        /\ pc_of(k) = "write_state"
        /\ ~ENABLED TaskStep(k)

\* the transactions of service k that the engine has handled, in the order
\* handled
HandledOf(k) ==
    LET own == SelectSeq(log, LAMBDA e : e.service = k)
    IN [i \in 1..Len(own) |-> own[i].transaction]

\* the transactions service k has decoded and is done with, in the order read
PassedOn(k) ==
    LET decoded == Decoded(driver.iter[k])
    IN IF pc_of(k) \in {"lock", "handle_transaction"}
       THEN SubSeq(decoded, 1, Len(decoded) - 1)
       ELSE decoded

(* C37: with several services on the shared engine: at most one service is *)
(* inside handle_transaction at a time, and none while main writes the     *)
(* report; the engine is what a new engine becomes when the transactions   *)
(* handled so far are handled one after the other in the order of the log; *)
(* the transactions handled for a service are those it has decoded, in the *)
(* order its reader yielded them; and main takes the engine for the report *)
(* only when every service has returned, the report being that of the      *)
(* engine all the transactions have left                                   *)
C37_ServicesSerializedByEngineMutex ==
    /\ Cardinality(HoldsEngine) <= 1
    /\ engine = Serial(PaymentsEngine_new, [i \in 1..Len(log) |-> log[i].transaction])
    /\ \A k \in Tasks : HandledOf(k) = PassedOn(k)
    /\ driver.pc # "join_all" => \A k \in Tasks : pc_of(k) = "done"
    /\ driver.pc # "exit" => driver.stdout = None
    /\ driver.pc = "exit" => driver.stdout = Some(write_state(engine))

C37_Witness ==
    /\ driver.pc = "exit"
    /\ Len(log) = MaxRecords
    /\ log[1].service # log[MaxRecords].service
    /\ \E c \in DOMAIN driver.stdout[1] : clients[c].total = MaxRecords * MaxAmount

====
